---- MODULE Spec2Model ----
(***************************************************************************)
(* Model of kafka-topic-creator's TopicManager: SyncTopics (metadata       *)
(* fetch, classification of the desired topics, batch create with bounded  *)
(* retry, per-topic partition increase, summary) and isRetryableError.     *)
(* The broker admin client (confluent-kafka-go) is the environment: each   *)
(* of its calls returns either a connection-level error or per-topic       *)
(* result codes, chosen nondeterministically.                              *)
(***************************************************************************)
EXTENDS Integers, Sequences, FiniteSets, TLC

\* ------------------------------------------------------------------ bounds

\* Longest desired list drawn at Init.
MaxDesired == 2
\* Largest partition count drawn at Init (desired and on the broker).
MaxParts == 2
\* Number of consecutive runs of the entry point against the same broker.
MaxRuns == 2

\* ------------------------------------------------------------ value domains

Names == {"A", "B"}
ReplicationFactors == {1, 2}
\* Replica lists (broker ids) a broker partition may carry.
ReplicaLists == {<< >>, <<1>>}

\* kafka.ErrNoError, kafka.ErrTopicAlreadyExists, and one other result code.
ErrNoError == "ErrNoError"
ErrTopicAlreadyExists == "ErrTopicAlreadyExists"
ErrInvalidReplicationFactor == "ErrInvalidReplicationFactor"
ErrInvalidPartitions == "ErrInvalidPartitions"
ResultCodes == {ErrNoError, ErrTopicAlreadyExists, ErrInvalidReplicationFactor}

\* ------------------------------------------------------------------ strings

LowerLetters == "abcdefghijklmnopqrstuvwxyz"
UpperLetters == "ABCDEFGHIJKLMNOPQRSTUVWXYZ"

\* The lower-case letter of every upper-case letter.
LowerOf ==
  [c \in {SubSeq(UpperLetters, i, i) : i \in 1..Len(UpperLetters)} |->
     LET i == CHOOSE j \in 1..Len(UpperLetters) : SubSeq(UpperLetters, j, j) = c
     IN SubSeq(LowerLetters, i, i)]

\* unicode.ToLower on one character (a string of length 1).
ToLowerChar(c) == IF c \in DOMAIN LowerOf THEN LowerOf[c] ELSE c

RECURSIVE ToLower(_)
\* strings.ToLower
ToLower(s) ==
  IF Len(s) = 0 THEN ""
  ELSE ToLowerChar(SubSeq(s, 1, 1)) \o ToLower(SubSeq(s, 2, Len(s)))

\* strings.Contains
Contains(s, substr) ==
  \E i \in 1..(Len(s) - Len(substr) + 1) : SubSeq(s, i, i + Len(substr) - 1) = substr

\* The nil error; an error value otherwise carries its text.
NilText == "<nil>"

\* retryableErrors in isRetryableError
retryableErrors ==
  << "connection refused",
     "connection closed",
     "timeout",
     "network is unreachable",
     "no such host",
     "connection reset by peer",
     "broken pipe" >>

\* isRetryableError with one pattern dropped from the lower-casing
isRetryableErrorNoLower(errText) ==
  IF errText = NilText THEN FALSE
  ELSE \E k \in 1..Len(retryableErrors) : Contains(errText, retryableErrors[k])

\* isRetryableError(err): err is given by its text, NilText for a nil error.
isRetryableError(errText) ==
  IF errText = NilText THEN FALSE
  ELSE \E k \in 1..Len(retryableErrors) :
         Contains(ToLower(errText), retryableErrors[k])

\* ------------------------------------------------------------ error values

\* An error value: its message, the number it formats, and the text of the
\* error it wraps with %w ("" when it wraps none).  Nil is the nil error.
Nil == [msg |-> NilText, n |-> 0, total |-> 0, wraps |-> ""]
Errorf(m, k, t, w) == [msg |-> m, n |-> k, total |-> t, wraps |-> w]

\* Connection-level error texts the admin client returns from CreateTopics.
ConnErrTexts == {"dial tcp: connection refused", "invalid configuration"}
\* The error text used for a failed GetMetadata or CreatePartitions call.
BrokerErrText == "Local: Broker transport failure"
\* context.Canceled.Error()
CtxErrText == "context canceled"

\* ------------------------------------------------------- desired and broker

TopicSpecification(t, p, r) ==
  [Topic |-> t, NumPartitions |-> p, ReplicationFactor |-> r]

\* kafka.TopicMetadata: the partitions, each with its replica list.
TopicMetadata(np, replicas) ==
  [Partitions |-> [i \in 1..np |-> [Replicas |-> replicas]]]

\* int32(x) conversion of a Go int: the value itself inside the int32 range,
\* wrapped modulo 2^32 outside it.
Int32(x) ==
  IF -2147483647 - 1 <= x /\ x <= 2147483647 THEN x
  ELSE ((x + 32768 * 65536) % (65536 * 65536)) - 32768 * 65536

\* ------------------------------------------------- classification (lines 55-100)

EmptyAnalysis ==
  [topicsToCreate |-> << >>, topicsToUpdate |-> << >>, cannotScaleDown |-> << >>,
   unchangedCount |-> 0, warned |-> << >>, panicked |-> FALSE]

\* The comparison of the replication check reads Partitions[0].Replicas[0].
ReplicationDiffers(spec, existing) ==
  Int32(spec.ReplicationFactor) # existing.Partitions[1].Replicas[1]

\* Loop body with the increase test off by one: an equal count is queued as
\* an update too.
AnalyzeTopicUpdatesEqual(st, spec, existing) ==
  LET currentPartitions == Len(existing.Partitions)
      updateInfo == [topic |-> spec.Topic, current |-> existing, desired |-> spec,
                     needsPartitionIncrease |-> TRUE]
  IN IF spec.NumPartitions >= currentPartitions
     THEN [st EXCEPT !.topicsToUpdate = Append(@, updateInfo)]
     ELSE [st EXCEPT !.cannotScaleDown = Append(@,
             [topic |-> spec.Topic, currentPartitions |-> currentPartitions,
              desiredPartitions |-> spec.NumPartitions])]

\* Loop body with the replication mismatch queued as an update.
AnalyzeTopicReplicationUpdates(st, spec, existing) ==
  LET currentPartitions == Len(existing.Partitions)
      diff == Len(existing.Partitions) > 0 /\ Len(existing.Partitions[1].Replicas) > 0
              /\ ReplicationDiffers(spec, existing)
      needsUpdate == spec.NumPartitions > currentPartitions \/ diff
      updateInfo == [topic |-> spec.Topic, current |-> existing, desired |-> spec,
                     needsPartitionIncrease |-> TRUE]
  IN IF needsUpdate
     THEN [st EXCEPT !.topicsToUpdate = Append(@, updateInfo)]
     ELSE IF spec.NumPartitions < currentPartitions
     THEN [st EXCEPT !.cannotScaleDown = Append(@,
             [topic |-> spec.Topic, currentPartitions |-> currentPartitions,
              desiredPartitions |-> spec.NumPartitions])]
     ELSE [st EXCEPT !.unchangedCount = @ + 1]

\* Loop body for a topic present in the snapshot (lines 64-99).
AnalyzeExisting(st, spec, existing) ==
  LET currentPartitions == Len(existing.Partitions)
      needsUpdate == spec.NumPartitions > currentPartitions
      updateInfo == [topic |-> spec.Topic, current |-> existing, desired |-> spec,
                     needsPartitionIncrease |-> needsUpdate]
      st1 == IF spec.NumPartitions > currentPartitions THEN st
             ELSE IF spec.NumPartitions < currentPartitions
             THEN [st EXCEPT !.cannotScaleDown = Append(@,
                     [topic |-> spec.Topic, currentPartitions |-> currentPartitions,
                      desiredPartitions |-> spec.NumPartitions])]
             ELSE st
  IN \* line 88: index 0 of an empty replica list is a run-time panic
     IF Len(existing.Partitions) > 0 /\ Len(existing.Partitions[1].Replicas) = 0
     THEN [st1 EXCEPT !.panicked = TRUE]
     ELSE LET st2 == IF Len(existing.Partitions) > 0 /\ ReplicationDiffers(spec, existing)
                     THEN [st1 EXCEPT !.warned = Append(@, spec.Topic)]
                     ELSE st1
          IN IF needsUpdate
             THEN [st2 EXCEPT !.topicsToUpdate = Append(@, updateInfo)]
             ELSE IF spec.NumPartitions = currentPartitions
             THEN [st2 EXCEPT !.unchangedCount = @ + 1]
             ELSE st2

\* The loop body without the lookup in the snapshot: every topic is queued
\* for creation.
AnalyzeTopicIgnoresSnapshot(st, spec, existingTopics) ==
  [st EXCEPT !.topicsToCreate = Append(@, spec)]

\* One iteration of the loop over topicSpecs (lines 55-100).
AnalyzeTopic(st, spec, existingTopics) ==
  IF spec.Topic \notin DOMAIN existingTopics
  THEN [st EXCEPT !.topicsToCreate = Append(@, spec)]
  ELSE AnalyzeExisting(st, spec, existingTopics[spec.Topic])

RECURSIVE AnalyzeFrom(_, _, _, _)
AnalyzeFrom(st, specs, i, existingTopics) ==
  IF i > Len(specs) \/ st.panicked THEN st
  ELSE AnalyzeFrom(AnalyzeTopic(st, specs[i], existingTopics), specs, i + 1,
                   existingTopics)

\* The whole classification pass of SyncTopics.
AnalyzeTopics(specs, existingTopics) ==
  AnalyzeFrom(EmptyAnalysis, specs, 1, existingTopics)

\* ---------------------------------------------------------------- the state

VARIABLES
  topicSpecs,       \* the desired list handed to the entry point
  entry,            \* "SyncTopics" or "CreateTopics": the method the caller runs
  broker,           \* the cluster: topic name -> TopicMetadata
  run,              \* number of the current run against this broker
  priorOK,          \* every earlier run ended with nil and only success codes
  priorChanges,     \* topics created or grown by the earlier runs
  pc,               \* position of the run
  existingTopics,   \* the snapshot returned by GetExistingTopics
  topicsToCreate, topicsToUpdate, cannotScaleDown, unchangedCount,
  warned,           \* topics the replication-factor diagnostic was printed for
  createdCount, updatedCount, failedCount,
  createSpecs,      \* argument of createTopicsFromSpecs
  attempt, lastErr, \* locals of createTopicsFromSpecs
  createCounts,     \* successCount, existsCount, errorCount of the last batch
  createErr,        \* what createTopicsFromSpecs returned ("none" before)
  updIdx,           \* index into topicsToUpdate of the next update
  result,           \* what the entry point returned ("none" before)
  calls,            \* admin-client calls of this run, in order, with outcomes
  sleeps,           \* time.Sleep durations of this run, in seconds
  errText,          \* argument of a direct isRetryableError call (NilText: nil)
  retryable,        \* what that call returned
  mainVariant,      \* which main runs: "ctx" (main.go), "select" (the older main)
  loader,           \* which GetAllTopicConfigs is linked: "validating" or "plain"
  records,          \* config.Topics as parsed from the YAML file
  mainPc,           \* position of main
  signalled,        \* SIGINT or SIGTERM was delivered to sigChan
  cancelled,        \* cancel() was called: ctx.Err() is context.Canceled
  cancelledAt,      \* where the run stood when cancel() was called
  connected,        \* getKafkaAdmin returned the admin client
  exitStatus        \* how the process ended ("running" before)

vars ==
  << topicSpecs, entry, broker, run, priorOK, priorChanges, pc, existingTopics, topicsToCreate,
     topicsToUpdate, cannotScaleDown, unchangedCount, warned, createdCount,
     updatedCount, failedCount, createSpecs, attempt, lastErr, createCounts,
     createErr, updIdx, result, calls, sleeps, errText, retryable,
     mainVariant, loader, records, mainPc, signalled, cancelled, cancelledAt,
     connected, exitStatus >>

processVars ==
  << mainVariant, loader, records, mainPc, signalled, cancelled, cancelledAt,
     connected, exitStatus >>
inputVars == << topicSpecs, entry, errText, retryable, priorChanges, processVars >>
analysisVars ==
  << existingTopics, topicsToCreate, topicsToUpdate, cannotScaleDown,
     unchangedCount, warned >>
countVars == << createdCount, updatedCount, failedCount >>
createVars == << createSpecs, attempt, lastErr, createCounts, createErr >>

\* maxRetries of createTopicsFromSpecs
maxRetries == 2

NoCounts == [successCount |-> 0, existsCount |-> 0, errorCount |-> 0]
NoResult == [msg |-> "none", n |-> 0, total |-> 0, wraps |-> ""]

Call(op, topics, increaseTo, err, codes) ==
  [op |-> op, topics |-> topics, increaseTo |-> increaseTo, err |-> err,
   codes |-> codes]

\* ------------------------------------------------------------------- inputs

SeqsUpTo(S, n) == UNION { [1..k -> S] : k \in 0..n }

DesiredSpecs ==
  { TopicSpecification(t, p, r) : t \in Names, p \in 1..MaxParts,
                                  r \in ReplicationFactors }

BrokerTopics ==
  { TopicMetadata(np, r) : np \in 0..MaxParts, r \in ReplicaLists }

Brokers == UNION { [S -> BrokerTopics] : S \in SUBSET Names }

\* The scenario of the specification's section 8.
ScenarioSpecs ==
  << TopicSpecification("A", 3, 1), TopicSpecification("B", 1, 1),
     TopicSpecification("C", 6, 1) >>
ScenarioBroker ==
  [t \in {"A", "B"} |-> TopicMetadata(1, <<1>>)]

\* Where cancel() was called: never.
NotCancelled == [pc |-> "none", calls |-> 0]

\* The entry point is called directly, outside of main: no process state.
NoProcess ==
  /\ mainVariant = "none" /\ loader = "none" /\ records = << >>
  /\ mainPc = "none" /\ signalled = FALSE /\ cancelled = FALSE
  /\ cancelledAt = NotCancelled /\ connected = FALSE /\ exitStatus = "running"

FreshRun ==
  /\ pc = "start"
  /\ existingTopics = << >>
  /\ topicsToCreate = << >> /\ topicsToUpdate = << >> /\ cannotScaleDown = << >>
  /\ unchangedCount = 0 /\ warned = << >>
  /\ createdCount = 0 /\ updatedCount = 0 /\ failedCount = 0
  /\ createSpecs = << >> /\ attempt = 0 /\ lastErr = Nil
  /\ createCounts = NoCounts /\ createErr = NoResult
  /\ updIdx = 0 /\ result = NoResult
  /\ calls = << >> /\ sleeps = << >>

Init ==
  /\ \/ /\ topicSpecs \in SeqsUpTo(DesiredSpecs, MaxDesired)
        /\ broker \in Brokers
     \/ /\ topicSpecs = ScenarioSpecs
        /\ broker = ScenarioBroker
  /\ entry \in {"SyncTopics", "CreateTopics"}
  /\ run = 1 /\ priorOK = TRUE /\ priorChanges = 0
  /\ errText = NilText /\ retryable = FALSE
  /\ NoProcess
  /\ FreshRun

\* -------------------------------------------------------- the admin client

\* The topic a successful create leaves on the broker.
CreatedTopic(spec) ==
  TopicMetadata(spec.NumPartitions, [k \in 1..spec.ReplicationFactor |-> k])

WithTopic(b, t, md) ==
  [x \in DOMAIN b \cup {t} |-> IF x = t THEN md ELSE b[x]]

\* A specification the broker can create a topic from.
ValidSpec(spec) ==
  spec.Topic # "" /\ spec.NumPartitions > 0 /\ spec.ReplicationFactor > 0

RECURSIVE CreateConsistent(_, _, _, _)
\* The per-topic codes of one CreateTopics call agree with the broker: a topic
\* is created only if absent and valid, and reported as existing only if
\* present.
CreateConsistent(b, specs, codes, i) ==
  IF i > Len(specs) THEN TRUE
  ELSE LET present == specs[i].Topic \in DOMAIN b
       IN /\ codes[i] = ErrNoError => (~present /\ ValidSpec(specs[i]))
          /\ codes[i] = ErrTopicAlreadyExists => present
          /\ CreateConsistent(
               IF codes[i] = ErrNoError
               THEN WithTopic(b, specs[i].Topic, CreatedTopic(specs[i])) ELSE b,
               specs, codes, i + 1)

RECURSIVE ApplyCreate(_, _, _, _)
ApplyCreate(b, specs, codes, i) ==
  IF i > Len(specs) THEN b
  ELSE ApplyCreate(
         IF codes[i] = ErrNoError
         THEN WithTopic(b, specs[i].Topic, CreatedTopic(specs[i])) ELSE b,
         specs, codes, i + 1)

\* The broker after a successful CreatePartitions(topic, IncreaseTo).
Grown(b, t, increaseTo) ==
  LET old == b[t].Partitions
      replicas == IF Len(old) > 0 THEN old[1].Replicas ELSE <<1>>
  IN WithTopic(b, t,
       [Partitions |-> [i \in 1..increaseTo |->
                          IF i <= Len(old) THEN old[i] ELSE [Replicas |-> replicas]]])

CanGrow(b, t, increaseTo) ==
  t \in DOMAIN b /\ increaseTo > Len(b[t].Partitions)

\* ------------------------------------------- createTopicsFromSpecs (173-238)

\* The retry test without the classifier: every error is retried while
\* attempts remain.
ShouldRetryAnyError(att, e) == att < maxRetries

\* The retry test without the classifier: no error is ever retried.
ShouldRetryNever(att, e) == FALSE

\* The retry test without the attempt ceiling.
ShouldRetryUnbounded(att, e) == isRetryableError(e)

\* line 190: retry only a retryable error while attempts remain
ShouldRetry(att, e) ==
  att < maxRetries /\ isRetryableError(e)

RECURSIVE CountResultsExistsAsError(_, _, _)
\* The pass over the results without the already-exists branch.
CountResultsExistsAsError(codes, i, acc) ==
  IF i > Len(codes) THEN acc
  ELSE CountResultsExistsAsError(codes, i + 1,
         IF codes[i] = ErrNoError
         THEN [acc EXCEPT !.successCount = @ + 1]
         ELSE [acc EXCEPT !.errorCount = @ + 1])

RECURSIVE CountResults(_, _, _)
\* lines 204-221: one pass over the results, every result inspected
CountResults(codes, i, acc) ==
  IF i > Len(codes) THEN acc
  ELSE CountResults(codes, i + 1,
         IF codes[i] = ErrNoError
         THEN [acc EXCEPT !.successCount = @ + 1]
         ELSE IF codes[i] = ErrTopicAlreadyExists
         THEN [acc EXCEPT !.existsCount = @ + 1]
         ELSE [acc EXCEPT !.errorCount = @ + 1])

\* The batch error carrying the size of the batch instead of the error count.
BatchErrorCountsTopics(counts, topicCount) ==
  IF counts.errorCount = 0 THEN Nil
  ELSE Errorf("some topics failed to create", topicCount, topicCount, "")

\* lines 228-234: nil when no result was an error
BatchError(counts, topicCount) ==
  IF counts.errorCount = 0 THEN Nil
  ELSE Errorf("some topics failed to create", counts.errorCount, topicCount, "")

\* The caller's counters with createdCount incremented instead of set.
CreatePhaseCountsIncrement(err, n) ==
  IF err # Nil THEN [created |-> 0, failed |-> n]
  ELSE [created |-> 1, failed |-> 0]

\* lines 109-114: the caller's counters after createTopicsFromSpecs returned err
CreatePhaseCounts(err, n) ==
  IF err # Nil THEN [created |-> 0, failed |-> n]
  ELSE [created |-> n, failed |-> 0]

\* The return with the failure test off by one.
SyncReturnOffByOne(failed) ==
  IF failed > 1 THEN Errorf("some operations failed", failed, 0, "") ELSE Nil

\* lines 146-150: the value SyncTopics returns
SyncReturn(failed) ==
  IF failed > 0 THEN Errorf("some operations failed", failed, 0, "") ELSE Nil

\* The step after the create phase that takes a new snapshot and classifies
\* again.
AfterCreatePhaseRefetch(updates) == "start"

\* lines 117-118, 134: after the create phase SyncTopics goes on with the
\* update loop over the lists it built, or with the report when it is empty
AfterCreatePhase(updates) ==
  IF Len(updates) > 0 THEN "update" ELSE "report"

\* createTopicsFromSpecs returns err to its caller, which goes on.
CreateReturns(err) ==
  /\ createErr' = err
  /\ IF entry = "CreateTopics"
     THEN /\ result' = err
          /\ pc' = "done"
          /\ UNCHANGED << countVars, updIdx >>
     ELSE /\ result' = result
          /\ createdCount' = CreatePhaseCounts(err, Len(topicsToCreate)).created
          /\ failedCount' =
               failedCount + CreatePhaseCounts(err, Len(topicsToCreate)).failed
          /\ updatedCount' = updatedCount
          /\ updIdx' = 1
          /\ pc' = AfterCreatePhase(topicsToUpdate)

\* ------------------------------------------------------------------ actions

\* GetExistingTopics succeeds (lines 26-46).
FetchMetadata ==
  /\ pc = "start" /\ entry = "SyncTopics"
  /\ existingTopics' = broker
  /\ calls' = Append(calls, Call("GetMetadata", << >>, 0, NilText, << >>))
  /\ pc' = "classify"
  /\ UNCHANGED << inputVars, broker, run, priorOK, topicsToCreate, topicsToUpdate,
                  cannotScaleDown, unchangedCount, warned, countVars, createVars,
                  updIdx, result, sleeps >>

\* The error GetExistingTopics returns when GetMetadata failed with callErr:
\* fmt.Errorf("failed to get metadata: %w", err), as the text of that error.
GetExistingTopicsError(callErr) == "failed to get metadata: " \o callErr

\* GetMetadata fails and SyncTopics drops the error: it goes on with an empty
\* snapshot.
FetchMetadataFailsIgnored ==
  /\ pc = "start" /\ entry = "SyncTopics"
  /\ calls' = Append(calls, Call("GetMetadata", << >>, 0, BrokerErrText, << >>))
  /\ existingTopics' = << >>
  /\ pc' = "classify"
  /\ UNCHANGED << inputVars, broker, run, priorOK, topicsToCreate, topicsToUpdate,
                  cannotScaleDown, unchangedCount, warned, countVars, createVars,
                  updIdx, result, sleeps >>

\* GetMetadata fails: GetExistingTopics wraps the call error (lines 28-30) and
\* SyncTopics wraps that error in turn and returns it (lines 44-46).
FetchMetadataFails ==
  /\ pc = "start" /\ entry = "SyncTopics"
  /\ calls' = Append(calls, Call("GetMetadata", << >>, 0, BrokerErrText, << >>))
  /\ result' = Errorf("failed to get existing topics", 0, 0,
                      GetExistingTopicsError(BrokerErrText))
  /\ pc' = "done"
  /\ UNCHANGED << inputVars, broker, run, priorOK, analysisVars, countVars,
                  createVars, updIdx, sleeps >>

\* The classification loop and the counters' initialisation (lines 48-103),
\* up to the first admin-client call of the execution phase.
Classify ==
  /\ pc = "classify"
  /\ LET a == AnalyzeTopics(topicSpecs, existingTopics)
     IN IF a.panicked
        THEN /\ pc' = "panic"
             /\ warned' = a.warned
             /\ UNCHANGED << topicsToCreate, topicsToUpdate, cannotScaleDown,
                             unchangedCount, createSpecs, attempt, updIdx >>
        ELSE /\ topicsToCreate' = a.topicsToCreate
             /\ topicsToUpdate' = a.topicsToUpdate
             /\ cannotScaleDown' = a.cannotScaleDown
             /\ unchangedCount' = a.unchangedCount
             /\ warned' = a.warned
             /\ IF Len(a.topicsToCreate) > 0
                THEN /\ createSpecs' = a.topicsToCreate
                     /\ attempt' = 1
                     /\ pc' = "create"
                     /\ updIdx' = updIdx
                ELSE /\ UNCHANGED << createSpecs, attempt >>
                     /\ updIdx' = 1
                     /\ pc' = IF Len(a.topicsToUpdate) > 0 THEN "update" ELSE "report"
  /\ UNCHANGED << inputVars, broker, run, priorOK, existingTopics, countVars,
                  lastErr, createCounts, createErr, result, calls, sleeps >>

\* main calls CreateTopics with the whole desired list (line 168-170).
CallCreateTopics ==
  /\ pc = "start" /\ entry = "CreateTopics"
  /\ createSpecs' = topicSpecs
  /\ attempt' = 1
  /\ pc' = "create"
  /\ UNCHANGED << inputVars, broker, run, priorOK, analysisVars, countVars, lastErr,
                  createCounts, createErr, updIdx, result, calls, sleeps >>

\* One attempt of the loop whose CreateTopics call fails (lines 184-197). With
\* ctx cancelled the admin client may give up waiting and return ctx.Err().
CreateAttemptFails ==
  /\ pc = "create"
  /\ \E e \in ConnErrTexts \cup (IF cancelled THEN {CtxErrText} ELSE {}) :
       LET err == Errorf("failed to create topics on attempt", attempt, 0, e)
       IN /\ calls' = Append(calls, Call("CreateTopics", createSpecs, 0, e, << >>))
          /\ lastErr' = err
          /\ IF ShouldRetry(attempt, e)
             THEN /\ pc' = "backoff"
                  /\ UNCHANGED << createErr, result, countVars, updIdx >>
             ELSE CreateReturns(err)
  /\ UNCHANGED << inputVars, broker, run, priorOK, analysisVars, createSpecs,
                  attempt, createCounts, sleeps >>

\* time.Sleep(attempt * 1s), then the next iteration (lines 191-194).
Backoff ==
  /\ pc = "backoff"
  /\ sleeps' = Append(sleeps, attempt * 1)
  /\ attempt' = attempt + 1
  /\ pc' = "create"
  /\ UNCHANGED << inputVars, broker, run, priorOK, analysisVars, countVars,
                  createSpecs, lastErr, createCounts, createErr, updIdx, result,
                  calls >>

\* One attempt whose CreateTopics call returns per-topic results (199-234).
CreateAttemptResults ==
  /\ pc = "create"
  /\ \E codes \in [1..Len(createSpecs) -> ResultCodes] :
       /\ CreateConsistent(broker, createSpecs, codes, 1)
       /\ LET counts == CountResults(codes, 1, NoCounts)
              err == BatchError(counts, Len(createSpecs))
          IN /\ broker' = ApplyCreate(broker, createSpecs, codes, 1)
             /\ calls' = Append(calls,
                               Call("CreateTopics", createSpecs, 0, NilText, codes))
             /\ createCounts' = counts
             /\ lastErr' = IF err = Nil THEN lastErr ELSE err
             /\ CreateReturns(err)
  /\ UNCHANGED << inputVars, run, priorOK, analysisVars, createSpecs, attempt,
                  sleeps >>

\* increaseTopicPartitions without the inspection of the per-topic result
\* code: only a failed call is an error.
IncreaseErrorIgnoresCode(callErr, code, topicName) ==
  IF callErr # NilText
  THEN Errorf("failed to increase partitions for topic", 0, 0, callErr)
  ELSE Nil

\* increaseTopicPartitions returns for (topic, newPartitionCount): nil only
\* for a call that succeeded with ErrNoError (lines 251-263).
IncreaseError(callErr, code, topicName) ==
  IF callErr # NilText
  THEN Errorf("failed to increase partitions for topic", 0, 0, callErr)
  ELSE IF code # ErrNoError
  THEN Errorf("failed to increase partitions for topic", 0, 0, code)
  ELSE Nil

\* One iteration of the update loop (lines 120-131). With ctx cancelled the
\* admin client may give up waiting and return ctx.Err().
UpdateTopic ==
  /\ pc = "update"
  /\ LET update == topicsToUpdate[updIdx]
         target == update.desired.NumPartitions
     IN IF update.needsPartitionIncrease
        THEN \E callErr \in {NilText, BrokerErrText}
                              \cup (IF cancelled THEN {CtxErrText} ELSE {}) :
             \E code \in {ErrNoError, ErrInvalidPartitions} :
               /\ callErr # NilText => code = ErrInvalidPartitions
               /\ (callErr = NilText /\ code = ErrNoError)
                    => CanGrow(broker, update.topic, target)
               /\ LET err == IncreaseError(callErr, code, update.topic)
                  IN /\ broker' = IF err = Nil
                                  THEN Grown(broker, update.topic, target)
                                  ELSE broker
                     /\ calls' = Append(calls,
                          Call("CreatePartitions", << update.topic >>, target, callErr,
                               IF callErr = NilText THEN << code >> ELSE << >>))
                     /\ failedCount' = IF err # Nil THEN failedCount + 1
                                       ELSE failedCount
                     /\ updatedCount' = IF err # Nil THEN updatedCount
                                        ELSE updatedCount + 1
        ELSE UNCHANGED << broker, calls, failedCount, updatedCount >>
  /\ updIdx' = updIdx + 1
  /\ pc' = IF updIdx < Len(topicsToUpdate) THEN "update" ELSE "report"
  /\ UNCHANGED << inputVars, run, priorOK, analysisVars, createdCount, createVars,
                  result, sleeps >>

\* The scale-down report, the summary and the return (lines 134-150).
Report ==
  /\ pc = "report"
  /\ result' = SyncReturn(failedCount)
  /\ pc' = "done"
  /\ UNCHANGED << inputVars, broker, run, priorOK, analysisVars, countVars,
                  createVars, updIdx, calls, sleeps >>

\* Every admin-client call of the run completed with success codes only.
AllCallsSucceeded ==
  \A i \in 1..Len(calls) :
    /\ calls[i].err = NilText
    /\ \A k \in 1..Len(calls[i].codes) : calls[i].codes[k] = ErrNoError

\* The tool is run again with the same desired list against the same broker.
RunAgain ==
  /\ pc = "done" /\ run < MaxRuns
  /\ run' = run + 1
  /\ priorOK' = (priorOK /\ result = Nil /\ AllCallsSucceeded)
  /\ priorChanges' = priorChanges + createdCount + updatedCount
  /\ pc' = "start"
  /\ existingTopics' = << >>
  /\ topicsToCreate' = << >> /\ topicsToUpdate' = << >> /\ cannotScaleDown' = << >>
  /\ unchangedCount' = 0 /\ warned' = << >>
  /\ createdCount' = 0 /\ updatedCount' = 0 /\ failedCount' = 0
  /\ createSpecs' = << >> /\ attempt' = 0 /\ lastErr' = Nil
  /\ createCounts' = NoCounts /\ createErr' = NoResult
  /\ updIdx' = 0 /\ result' = NoResult
  /\ calls' = << >> /\ sleeps' = << >>
  /\ UNCHANGED << topicSpecs, entry, errText, retryable, broker, processVars >>

Next ==
  \/ FetchMetadata
  \/ FetchMetadataFails
  \/ Classify
  \/ CallCreateTopics
  \/ CreateAttemptFails
  \/ Backoff
  \/ CreateAttemptResults
  \/ UpdateTopic
  \/ Report
  \/ RunAgain

Spec == Init /\ [][Next]_vars

\* ------------------------------------------- isRetryableError on its own

\* strings.ToUpper, to write error texts in other letter cases.
UpperOf ==
  [c \in {SubSeq(LowerLetters, i, i) : i \in 1..Len(LowerLetters)} |->
     LET i == CHOOSE j \in 1..Len(LowerLetters) : SubSeq(LowerLetters, j, j) = c
     IN SubSeq(UpperLetters, i, i)]

ToUpperChar(c) == IF c \in DOMAIN UpperOf THEN UpperOf[c] ELSE c

RECURSIVE ToUpper(_)
ToUpper(s) ==
  IF Len(s) = 0 THEN ""
  ELSE ToUpperChar(SubSeq(s, 1, 1)) \o ToUpper(SubSeq(s, 2, Len(s)))

Capitalized(s) ==
  IF Len(s) = 0 THEN "" ELSE ToUpperChar(SubSeq(s, 1, 1)) \o SubSeq(s, 2, Len(s))

ErrCores ==
  { "connection refused", "connection closed", "timeout", "network is unreachable",
    "no such host", "connection reset by peer", "broken pipe",
    "network unreachable", "invalid configuration", "time out", "connection",
    "host unreachable", "" }
ErrPrefixes == { "", "dial tcp: " }
ErrSuffixes == { "", " (os error)" }

ErrTexts ==
  { NilText } \cup
  { p \o c \o x : p \in ErrPrefixes, x \in ErrSuffixes,
                  c \in UNION { {k, ToUpper(k), Capitalized(k)} : k \in ErrCores } }

InitRetry ==
  /\ errText \in ErrTexts
  /\ retryable = FALSE
  /\ topicSpecs = << >> /\ broker = << >> /\ entry = "isRetryableError"
  /\ run = 1 /\ priorOK = TRUE /\ priorChanges = 0
  /\ existingTopics = << >>
  /\ topicsToCreate = << >> /\ topicsToUpdate = << >> /\ cannotScaleDown = << >>
  /\ unchangedCount = 0 /\ warned = << >>
  /\ createdCount = 0 /\ updatedCount = 0 /\ failedCount = 0
  /\ createSpecs = << >> /\ attempt = 0 /\ lastErr = Nil
  /\ createCounts = NoCounts /\ createErr = NoResult
  /\ updIdx = 0 /\ result = NoResult
  /\ calls = << >> /\ sleeps = << >>
  /\ NoProcess
  /\ pc = "classifier"

\* isRetryableError(err) is called and returns.
ClassifyError ==
  /\ pc = "classifier"
  /\ retryable' = isRetryableError(errText)
  /\ pc' = "classified"
  /\ UNCHANGED << topicSpecs, entry, errText, priorChanges, broker, run, priorOK,
                  analysisVars, processVars,
                  countVars, createVars, updIdx, result, calls, sleeps >>

NextRetry == ClassifyError

SpecRetry == InitRetry /\ [][NextRetry]_vars

\* ------------------------------------------------- main and its loaders

\* Bound of the number of records of the YAML file.
MaxRecords == 2

\* TopicConfig values the YAML file may hold.
ConfigNames == {"", "A", "B"}
ConfigPartitions == {-1, 0, 1}
ConfigReplicationFactors == {0, 1}
TopicConfig(name, partitions, replicationFactor) ==
  [Name |-> name, Partitions |-> partitions,
   ReplicationFactor |-> replicationFactor]
TopicConfigs ==
  { TopicConfig(n, p, r) : n \in ConfigNames, p \in ConfigPartitions,
                           r \in ConfigReplicationFactors }

\* os.ReadFile's error text for a missing file.
ReadErrText == "open topics.yaml: no such file or directory"

RECURSIVE ConvertFrom(_, _, _)
\* The conversion loop of the loader without validation (part_002, 39-46).
ConvertFrom(topics, i, topicSpecsSoFar) ==
  IF i > Len(topics) THEN [specs |-> topicSpecsSoFar, err |-> Nil]
  ELSE ConvertFrom(topics, i + 1,
         Append(topicSpecsSoFar,
                TopicSpecification(topics[i].Name, topics[i].Partitions,
                                   topics[i].ReplicationFactor)))

\* GetAllTopicConfigs of part_002: read, parse, convert.
GetAllTopicConfigsPlain(readErr, topics) ==
  IF readErr # NilText
  THEN [specs |-> << >>,
        err |-> Errorf("failed to read topics.yaml file", 0, 0, readErr)]
  ELSE ConvertFrom(topics, 1, << >>)

RECURSIVE ValidateFrom(_, _, _)
\* The loop of the validating loader (part_001, 75-92): the first invalid
\* record ends it with an error and no specifications.
ValidateFrom(topics, i, topicSpecsSoFar) ==
  IF i > Len(topics) THEN [specs |-> topicSpecsSoFar, err |-> Nil]
  ELSE LET topic == topics[i]
       IN IF topic.Name = ""
          THEN [specs |-> << >>,
                err |-> Errorf("topic name cannot be empty", 0, 0, "")]
          ELSE IF topic.Partitions <= 0
          THEN [specs |-> << >>,
                err |-> Errorf("topic must have at least 1 partition", 0, 0,
                               topic.Name)]
          ELSE IF topic.ReplicationFactor <= 0
          THEN [specs |-> << >>,
                err |-> Errorf("topic must have at least 1 replication factor",
                               0, 0, topic.Name)]
          ELSE ValidateFrom(topics, i + 1,
                 Append(topicSpecsSoFar,
                        TopicSpecification(topic.Name, topic.Partitions,
                                           topic.ReplicationFactor)))

\* GetAllTopicConfigs of part_001: read, parse, validate and convert.
GetAllTopicConfigs(readErr, topics) ==
  IF readErr # NilText
  THEN [specs |-> << >>,
        err |-> Errorf("failed to read config file", 0, 0, readErr)]
  ELSE ValidateFrom(topics, 1, << >>)

\* Brokers the process is run against.
MainBrokers == { << >>, [t \in {"A"} |-> TopicMetadata(1, <<1>>)] }

InitMain ==
  /\ mainVariant \in {"ctx", "select"}
  /\ loader \in {"validating", "plain"}
  /\ records \in SeqsUpTo(TopicConfigs, MaxRecords)
  /\ broker \in MainBrokers
  /\ mainPc = IF mainVariant = "ctx" THEN "load" ELSE "connect"
  /\ signalled = FALSE /\ cancelled = FALSE /\ cancelledAt = NotCancelled
  /\ connected = FALSE /\ exitStatus = "running"
  /\ topicSpecs = << >> /\ entry = "CreateTopics"
  /\ run = 1 /\ priorOK = TRUE /\ priorChanges = 0
  /\ errText = NilText /\ retryable = FALSE
  /\ existingTopics = << >>
  /\ topicsToCreate = << >> /\ topicsToUpdate = << >> /\ cannotScaleDown = << >>
  /\ unchangedCount = 0 /\ warned = << >>
  /\ createdCount = 0 /\ updatedCount = 0 /\ failedCount = 0
  /\ createSpecs = << >> /\ attempt = 0 /\ lastErr = Nil
  /\ createCounts = NoCounts /\ createErr = NoResult
  /\ updIdx = 0 /\ result = NoResult
  /\ calls = << >> /\ sleeps = << >>
  /\ pc = "idle"

\* The process has not exited.
Running == exitStatus = "running"

runVars ==
  << broker, run, priorOK, pc, analysisVars, countVars, createVars, updIdx,
     result, calls, sleeps >>

\* The operating system delivers SIGINT or SIGTERM; signal.Notify puts it
\* into sigChan (main.go 30-31, part_003 42-43).
Signal ==
  /\ Running /\ ~signalled
  /\ signalled' = TRUE
  /\ UNCHANGED << topicSpecs, entry, errText, retryable, priorChanges,
                  mainVariant, loader, records, mainPc, cancelled, cancelledAt,
                  connected, exitStatus, runVars >>

\* The goroutine of main.go receives the signal and calls cancel() (37-41).
CancelOnSignal ==
  /\ Running /\ mainVariant = "ctx"
  /\ signalled /\ ~cancelled
  /\ cancelled' = TRUE
  /\ cancelledAt' = [pc |-> pc, calls |-> Len(calls)]
  /\ UNCHANGED << topicSpecs, entry, errText, retryable, priorChanges,
                  mainVariant, loader, records, mainPc, signalled, connected,
                  exitStatus, runVars >>

\* main loads the topic configurations; log.Fatalf on an error (main.go
\* 47-50, part_003 63-66).
MainLoadTopics ==
  /\ Running /\ mainPc = "load"
  /\ \E readErr \in {NilText, ReadErrText} :
       LET r == IF loader = "validating"
                THEN GetAllTopicConfigs(readErr, records)
                ELSE GetAllTopicConfigsPlain(readErr, records)
       IN IF r.err # Nil
          THEN /\ exitStatus' = "fatal"
               /\ mainPc' = "exited"
               /\ topicSpecs' = topicSpecs
          ELSE /\ topicSpecs' = r.specs
               /\ mainPc' = IF mainVariant = "ctx" THEN "connect" ELSE "create"
               /\ exitStatus' = exitStatus
  /\ UNCHANGED << entry, errText, retryable, priorChanges, mainVariant, loader,
                  records, signalled, cancelled, cancelledAt, connected, runVars >>

\* loadConfig and getKafkaAdmin; log.Fatalf on an error (main.go 61-71,
\* part_003 48-58).
MainConnect ==
  /\ Running /\ mainPc = "connect"
  /\ \E err \in {NilText, "KAFKA_SERVER is required"} :
       IF err # NilText
       THEN /\ exitStatus' = "fatal"
            /\ mainPc' = "exited"
            /\ connected' = connected
       ELSE /\ connected' = TRUE
            /\ mainPc' = IF mainVariant = "ctx" THEN "create" ELSE "load"
            /\ exitStatus' = exitStatus
  /\ UNCHANGED << topicSpecs, entry, errText, retryable, priorChanges,
                  mainVariant, loader, records, signalled, cancelled,
                  cancelledAt, runVars >>

\* main calls CreateTopics, itself (main.go 79) or in a goroutine (part_003
\* 74-82).
MainStartCreateTopics ==
  /\ Running /\ mainPc = "create" /\ pc = "idle"
  /\ pc' = "start"
  /\ mainPc' = "wait"
  /\ UNCHANGED << topicSpecs, entry, errText, retryable, priorChanges,
                  mainVariant, loader, records, signalled, cancelled,
                  cancelledAt, connected, exitStatus, broker, run, priorOK,
                  analysisVars, countVars, createVars, updIdx, result, calls,
                  sleeps >>

\* CreateTopics returned to main.go (80-89): an error is reported as a
\* cancellation when ctx.Err() is context.Canceled and is fatal otherwise.
MainCheckResult ==
  /\ Running /\ mainVariant = "ctx"
  /\ mainPc = "wait" /\ pc = "done"
  /\ exitStatus' = IF result # Nil
                   THEN IF cancelled THEN "cancelled" ELSE "fatal"
                   ELSE "success"
  /\ mainPc' = "exited"
  /\ UNCHANGED << topicSpecs, entry, errText, retryable, priorChanges,
                  mainVariant, loader, records, signalled, cancelled,
                  cancelledAt, connected, runVars >>

\* The select of the older main (part_003 85-94) takes one of its ready
\* cases: the goroutine's error, its completion, or the signal; os.Exit on
\* the signal ends the goroutine wherever it stands.
MainSelect ==
  /\ Running /\ mainVariant = "select"
  /\ mainPc = "wait"
  /\ \/ /\ pc = "done" /\ result # Nil
        /\ exitStatus' = "fatal"
     \/ /\ pc = "done" /\ result = Nil
        /\ exitStatus' = "success"
     \/ /\ signalled
        /\ exitStatus' = "cancelled"
  /\ mainPc' = "exited"
  /\ UNCHANGED << topicSpecs, entry, errText, retryable, priorChanges,
                  mainVariant, loader, records, signalled, cancelled,
                  cancelledAt, connected, runVars >>

NextMain ==
  \/ Signal
  \/ CancelOnSignal
  \/ MainLoadTopics
  \/ MainConnect
  \/ MainStartCreateTopics
  \/ (Running /\ CallCreateTopics)
  \/ (Running /\ CreateAttemptFails)
  \/ (Running /\ Backoff)
  \/ (Running /\ CreateAttemptResults)
  \/ MainCheckResult
  \/ MainSelect

SpecMain == InitMain /\ [][NextMain]_vars

\* ------------------------------------------------------- helpers of claims

\* SyncTopics got its snapshot.
Fetched ==
  entry = "SyncTopics" /\ Len(calls) > 0 /\ calls[1].op = "GetMetadata"
  /\ calls[1].err = NilText

\* The classification pass of this run completed.
Classified ==
  Fetched /\ pc \in {"create", "backoff", "update", "report", "done"}

\* The classification loop of this run is over: it completed, or it faulted
\* at line 88 and ended the run there.
PastClassification == Fetched /\ pc # "classify"

\* The snapshot's partition count of a topic present in it.
SnapshotCount(t) == Len(existingTopics[t].Partitions)

IsAbsent(spec) == spec.Topic \notin DOMAIN existingTopics
IsGreater(spec) ==
  spec.Topic \in DOMAIN existingTopics /\ spec.NumPartitions > SnapshotCount(spec.Topic)
IsLess(spec) ==
  spec.Topic \in DOMAIN existingTopics /\ spec.NumPartitions < SnapshotCount(spec.Topic)
IsEqual(spec) ==
  spec.Topic \in DOMAIN existingTopics /\ spec.NumPartitions = SnapshotCount(spec.Topic)

IsCreateCall(c) == c.op = "CreateTopics"
IsPartitionsCall(c) == c.op = "CreatePartitions"
CreateCalls == SelectSeq(calls, IsCreateCall)
PartitionsCalls == SelectSeq(calls, IsPartitionsCall)

CallFailed(c) ==
  c.err # NilText \/ \E k \in 1..Len(c.codes) : c.codes[k] # ErrNoError

\* ---------------------------------------------------------------- claims

\* C1: for every desired list and every snapshot, once the classification
\* loop of SyncTopics is over every desired entry is in exactly one class,
\* the one the snapshot determines: absent names are to create, greater
\* desired counts to update, smaller ones cannot be scaled down, equal ones
\* are unchanged; no entry is in two classes or in none.
C1_EverySnapshotClassified ==
  PastClassification =>
    /\ \A i \in 1..Len(topicSpecs) :
         LET e == topicSpecs[i]
             inCreate == \E j \in 1..Len(topicsToCreate) : topicsToCreate[j] = e
             inUpdate == \E j \in 1..Len(topicsToUpdate) : topicsToUpdate[j].desired = e
             inDown   == \E j \in 1..Len(cannotScaleDown) :
                           /\ cannotScaleDown[j].topic = e.Topic
                           /\ cannotScaleDown[j].desiredPartitions = e.NumPartitions
         IN /\ inCreate = IsAbsent(e)
            /\ inUpdate = IsGreater(e)
            /\ inDown = IsLess(e)
    /\ unchangedCount = Len(SelectSeq(topicSpecs, IsEqual))
    /\ Len(topicsToCreate) + Len(topicsToUpdate) + Len(cannotScaleDown)
         + unchangedCount = Len(topicSpecs)

\* What the code does: when the classification loop completed, the four work
\* lists are exactly the desired list split by the snapshot: absent names in
\* topicsToCreate, greater desired counts in topicsToUpdate, smaller ones in
\* cannotScaleDown, equal ones counted in unchangedCount, in the desired
\* order.  A run that faulted in the loop (an empty replica list read at line
\* 88) has classified nothing.
C1_ExactlyOneClass ==
  Classified =>
    /\ topicsToCreate = SelectSeq(topicSpecs, IsAbsent)
    /\ [i \in 1..Len(topicsToUpdate) |-> topicsToUpdate[i].desired]
         = SelectSeq(topicSpecs, IsGreater)
    /\ [i \in 1..Len(cannotScaleDown) |->
          << cannotScaleDown[i].topic, cannotScaleDown[i].desiredPartitions >>]
         = [i \in 1..Len(SelectSeq(topicSpecs, IsLess)) |->
              << SelectSeq(topicSpecs, IsLess)[i].Topic,
                 SelectSeq(topicSpecs, IsLess)[i].NumPartitions >>]
    /\ unchangedCount = Len(SelectSeq(topicSpecs, IsEqual))
    /\ Len(topicsToCreate) + Len(topicsToUpdate) + Len(cannotScaleDown)
         + unchangedCount = Len(topicSpecs)

\* A classified run with one topic to grow and one that cannot be scaled down.
C1_Witness ==
  Classified /\ Len(topicsToUpdate) = 1 /\ Len(cannotScaleDown) = 1

\* C2: for a desired entry below the snapshot's partition count, in any run
\* whose classification loop is over, no create call names its topic and no
\* partition call for its topic asks for a count at or below the snapshot's;
\* the entry is in the scale-down report with the snapshot count and the
\* desired count; and the run completes with the other entries processed: it
\* does not end without a result.
C2_ScaleDownReportedInEveryRun ==
  PastClassification =>
    \A i \in 1..Len(topicSpecs) :
      IsLess(topicSpecs[i]) =>
        /\ \A k \in 1..Len(calls) :
             /\ IsCreateCall(calls[k]) =>
                  \A j \in 1..Len(calls[k].topics) :
                    calls[k].topics[j].Topic # topicSpecs[i].Topic
             /\ (IsPartitionsCall(calls[k]) /\ calls[k].topics[1] = topicSpecs[i].Topic)
                  => calls[k].increaseTo > SnapshotCount(topicSpecs[i].Topic)
        /\ \E j \in 1..Len(cannotScaleDown) :
             cannotScaleDown[j] =
               [topic |-> topicSpecs[i].Topic,
                currentPartitions |-> SnapshotCount(topicSpecs[i].Topic),
                desiredPartitions |-> topicSpecs[i].NumPartitions]
        /\ pc # "panic"

\* What the code does: in a run whose classification loop completed, an entry
\* below the snapshot's partition count gets no create call and no partition
\* call asking for a count at or below the snapshot's, it is in the
\* scale-down report with the snapshot count and the desired count, and the
\* run completes with the other entries processed (one partition call per
\* entry to grow, a create call when a topic is missing).
C2_NoPartitionDecrease ==
  Classified =>
    \A i \in 1..Len(topicSpecs) :
      IsLess(topicSpecs[i]) =>
        /\ \A k \in 1..Len(calls) :
             /\ IsCreateCall(calls[k]) =>
                  \A j \in 1..Len(calls[k].topics) :
                    calls[k].topics[j].Topic # topicSpecs[i].Topic
             /\ (IsPartitionsCall(calls[k]) /\ calls[k].topics[1] = topicSpecs[i].Topic)
                  => calls[k].increaseTo > SnapshotCount(topicSpecs[i].Topic)
        /\ \E j \in 1..Len(cannotScaleDown) :
             cannotScaleDown[j] =
               [topic |-> topicSpecs[i].Topic,
                currentPartitions |-> SnapshotCount(topicSpecs[i].Topic),
                desiredPartitions |-> topicSpecs[i].NumPartitions]
        /\ pc = "done" =>
             /\ result # NoResult
             /\ Len(PartitionsCalls) = Len(SelectSeq(topicSpecs, IsGreater))
             /\ \A j \in 1..Len(PartitionsCalls) :
                  /\ PartitionsCalls[j].topics[1] = SelectSeq(topicSpecs, IsGreater)[j].Topic
                  /\ PartitionsCalls[j].increaseTo
                       = SelectSeq(topicSpecs, IsGreater)[j].NumPartitions
             /\ (Len(CreateCalls) > 0) = (Len(SelectSeq(topicSpecs, IsAbsent)) > 0)

\* A finished run that reported a scale-down and also grew another entry.
C2_Witness ==
  /\ Classified /\ pc = "done" /\ Len(cannotScaleDown) > 0
  /\ updatedCount > 0 /\ result = Nil

\* createTopicsFromSpecs has returned in this run.
CreateReturned == createErr # NoResult

IsBenign(code) == code \in {ErrNoError, ErrTopicAlreadyExists}
CountOf(codes, S) == Cardinality({k \in 1..Len(codes) : codes[k] \in S})

\* C3: when the last CreateTopics call of createTopicsFromSpecs returned
\* results, it returns nil exactly if every result code is success or
\* already-exists; the three counters partition all the results (already-exists
\* apart from created and from errors); and a nil return adds no failure to the
\* enclosing sync, which then fails only through a failed partition call.
C3_AlreadyExistsIsBenign ==
  (CreateReturned /\ CreateCalls[Len(CreateCalls)].err = NilText) =>
    LET codes == CreateCalls[Len(CreateCalls)].codes
    IN /\ (createErr = Nil) = (\A k \in 1..Len(codes) : IsBenign(codes[k]))
       /\ createCounts.successCount = CountOf(codes, {ErrNoError})
       /\ createCounts.existsCount = CountOf(codes, {ErrTopicAlreadyExists})
       /\ createCounts.errorCount = CountOf(codes, ResultCodes \ {ErrNoError, ErrTopicAlreadyExists})
       /\ createCounts.successCount + createCounts.existsCount
            + createCounts.errorCount = Len(codes)
       /\ createErr # Nil => createErr.n = createCounts.errorCount
       /\ (entry = "CreateTopics" /\ pc = "done") => result = createErr
       /\ (entry = "SyncTopics" /\ createErr = Nil) =>
            /\ failedCount = Cardinality({k \in 1..Len(PartitionsCalls) :
                                            CallFailed(PartitionsCalls[k])})
            /\ (pc = "done" /\ failedCount = 0) => result = Nil

\* C3 witness: a batch with a created topic and an already existing one
\* returned nil.
C3_Witness ==
  /\ CreateReturned /\ createErr = Nil
  /\ createCounts.successCount > 0 /\ createCounts.existsCount > 0
  /\ pc = "done" /\ result = Nil

\* C4: when createTopicsFromSpecs has returned and its first CreateTopics
\* call failed with a retryable error, exactly 2 calls were made, with one
\* sleep of 1 second between them; and if the second returned results without
\* an error code, nil was returned, not the first attempt's error.
C4_RetryThenSuccess ==
  (CreateReturned /\ CreateCalls[1].err # NilText /\ isRetryableError(CreateCalls[1].err)) =>
    /\ Len(CreateCalls) = 2
    /\ sleeps = << 1 >>
    /\ (CreateCalls[2].err = NilText
        /\ \A k \in 1..Len(CreateCalls[2].codes) : IsBenign(CreateCalls[2].codes[k]))
         => createErr = Nil

\* C4 witness: a retryable failure, then a successful second attempt.
C4_Witness ==
  /\ CreateReturned /\ Len(CreateCalls) = 2
  /\ isRetryableError(CreateCalls[1].err) /\ CreateCalls[2].err = NilText
  /\ Len(createSpecs) > 0 /\ createErr = Nil

\* C5: no run makes more than maxRetries = 2 CreateTopics calls; when every
\* call failed with a retryable error, createTopicsFromSpecs returns after
\* exactly 2 calls with the error of attempt 2 wrapping the last call's error.
C5_RetryCeiling ==
  /\ Len(CreateCalls) <= 2
  /\ (CreateReturned
      /\ \A k \in 1..Len(CreateCalls) :
           CreateCalls[k].err # NilText /\ isRetryableError(CreateCalls[k].err)) =>
       /\ Len(CreateCalls) = 2
       /\ createErr = Errorf("failed to create topics on attempt", 2, 0,
                             CreateCalls[2].err)
       /\ (entry = "CreateTopics" /\ pc = "done") => result = createErr

\* C5 witness: both attempts failed with a retryable error and the error of
\* the second came back.
C5_Witness ==
  /\ CreateReturned /\ Len(CreateCalls) = 2
  /\ isRetryableError(CreateCalls[1].err) /\ isRetryableError(CreateCalls[2].err)
  /\ createErr.n = 2 /\ createErr.wraps = CreateCalls[2].err

FailedPartitionsCalls ==
  Cardinality({k \in 1..Len(PartitionsCalls) : CallFailed(PartitionsCalls[k])})

\* C6 as stated: a finished SyncTopics returned an error exactly if its
\* failure count is above zero.
C6_ErrorIffFailures ==
  (entry = "SyncTopics" /\ pc = "done") => ((result # Nil) = (failedCount > 0))

\* C6, amended: a SyncTopics run that got its snapshot returns an error
\* exactly if the failures counted over the create phase (all of topicsToCreate
\* when createTopicsFromSpecs failed) and the update phase (one per failed
\* partition call) are above zero, and the error carries that count; a run
\* whose metadata fetch failed returns an error with no failure counted.
C6_ErrorIffFailuresAfterFetch ==
  (entry = "SyncTopics" /\ pc = "done") =>
    IF Fetched
    THEN /\ (result # Nil) = (failedCount > 0)
         /\ result # Nil => result = Errorf("some operations failed", failedCount, 0, "")
         /\ failedCount =
              (IF CreateReturned /\ createErr # Nil THEN Len(topicsToCreate) ELSE 0)
              + FailedPartitionsCalls
    ELSE /\ result = Errorf("failed to get existing topics", 0, 0,
                            GetExistingTopicsError(calls[1].err))
         /\ failedCount = 0

\* C6 witness: a run in which one update succeeded and another operation
\* failed returned an error.
C6_Witness ==
  /\ entry = "SyncTopics" /\ pc = "done" /\ Fetched
  /\ updatedCount > 0 /\ failedCount > 0 /\ result # Nil

\* A later run of SyncTopics after runs that all returned nil with success
\* codes only, itself finished with its snapshot fetched.
RerunAfterCleanRuns ==
  entry = "SyncTopics" /\ run >= 2 /\ priorOK /\ pc = "done" /\ Fetched

\* C7 as stated: the second run counts every desired topic as unchanged and
\* creates, updates and fails nothing.
C7_Idempotent ==
  (RerunAfterCleanRuns /\ AllCallsSucceeded) =>
    /\ unchangedCount = Len(topicSpecs)
    /\ createdCount = 0 /\ updatedCount = 0 /\ failedCount = 0

\* C7, amended: the second run makes no call but the metadata fetch, creates,
\* updates and fails nothing, returns nil, and counts every desired topic as
\* unchanged or as cannot-scale-down: unchangedCount is the length of the
\* desired list less the entries below the broker's partition count.
C7_IdempotentUpToScaleDown ==
  RerunAfterCleanRuns =>
    /\ Len(calls) = 1
    /\ createdCount = 0 /\ updatedCount = 0 /\ failedCount = 0
    /\ result = Nil
    /\ unchangedCount + Len(cannotScaleDown) = Len(topicSpecs)
    /\ Len(cannotScaleDown) = Len(SelectSeq(topicSpecs, IsLess))
    /\ existingTopics = broker

\* C7 witness: a second run after a first run that created or grew two
\* topics counts both as unchanged.
C7_Witness ==
  /\ RerunAfterCleanRuns /\ run = 2 /\ priorChanges = 2
  /\ Len(topicSpecs) = 2 /\ unchangedCount = 2

\* The class the loop body gives one desired entry against a snapshot.
ClassOf(spec, snapshot) ==
  LET a == AnalyzeTopic(EmptyAnalysis, spec, snapshot)
  IN IF a.panicked THEN "Panic"
     ELSE IF Len(a.topicsToCreate) = 1 THEN "ToCreate"
     ELSE IF Len(a.topicsToUpdate) = 1 THEN "ToIncreasePartitions"
     ELSE IF Len(a.cannotScaleDown) = 1 THEN "CannotScaleDown"
     ELSE IF a.unchangedCount = 1 THEN "Unchanged"
     ELSE "None"

\* The replication check of line 88 fires for this entry.
ReplicationMismatch(spec) ==
  /\ spec.Topic \in DOMAIN existingTopics
  /\ SnapshotCount(spec.Topic) > 0
  /\ Len(existingTopics[spec.Topic].Partitions[1].Replicas) > 0
  /\ existingTopics[spec.Topic].Partitions[1].Replicas[1] # spec.ReplicationFactor

\* C8: against the fetched snapshot every desired entry gets the same class
\* whatever its replication factor; an entry with a replication mismatch and
\* an equal partition count is counted unchanged, gets the diagnostic, and no
\* create or partition call is made for it; a run whose desired entries all
\* have the snapshot's partition count makes no call after the fetch and
\* returns nil with no failure.
C8_ReplicationNonBlocking ==
  (Fetched /\ pc # "classify") =>
    /\ \A i \in 1..Len(topicSpecs) : \A rf \in ReplicationFactors :
         ClassOf([topicSpecs[i] EXCEPT !.ReplicationFactor = rf], existingTopics)
           = ClassOf(topicSpecs[i], existingTopics)
    /\ Classified =>
         \A i \in 1..Len(topicSpecs) :
           (ReplicationMismatch(topicSpecs[i]) /\ IsEqual(topicSpecs[i])) =>
             /\ ClassOf(topicSpecs[i], existingTopics) = "Unchanged"
             /\ unchangedCount >= 1
             /\ \E j \in 1..Len(warned) : warned[j] = topicSpecs[i].Topic
             /\ \A k \in 1..Len(calls) :
                  /\ IsCreateCall(calls[k]) =>
                       \A j \in 1..Len(calls[k].topics) :
                         calls[k].topics[j].Topic # topicSpecs[i].Topic
                  /\ (IsPartitionsCall(calls[k])
                      /\ calls[k].topics[1] = topicSpecs[i].Topic)
                       => calls[k].increaseTo > topicSpecs[i].NumPartitions
    /\ (Classified /\ \A i \in 1..Len(topicSpecs) : IsEqual(topicSpecs[i])) =>
         /\ Len(calls) = 1
         /\ unchangedCount = Len(topicSpecs)
         /\ failedCount = 0
         /\ pc \in {"report", "done"}
         /\ pc = "done" => result = Nil

\* C8 witness: a finished run whose entries all differ from the broker in
\* replication factor only.
C8_Witness ==
  /\ Classified /\ pc = "done" /\ Len(topicSpecs) > 0
  /\ \A i \in 1..Len(topicSpecs) :
       ReplicationMismatch(topicSpecs[i]) /\ IsEqual(topicSpecs[i])
  /\ Len(warned) = Len(topicSpecs) /\ result = Nil

\* The substrings as the specification lists them.
StatedSubstrings ==
  { "connection refused", "connection closed", "timeout", "network unreachable",
    "no such host", "connection reset by peer", "broken pipe" }

\* The substrings with "network is unreachable" for "network unreachable".
AmendedSubstrings ==
  { "connection refused", "connection closed", "timeout", "network is unreachable",
    "no such host", "connection reset by peer", "broken pipe" }

ContainsAnyLowered(text, substrings) ==
  \E p \in substrings :
    \E i \in 1..Len(text) :
      i + Len(p) - 1 <= Len(text) /\ ToLower(SubSeq(text, i, i + Len(p) - 1)) = p

\* C9 as stated: isRetryableError returns true exactly for a non-nil error
\* whose lower-cased text contains one of the stated substrings, among them
\* "network unreachable".
C9_RetryableIffStated ==
  pc = "classified" =>
    retryable = (errText # NilText /\ ContainsAnyLowered(errText, StatedSubstrings))

\* C9, amended: isRetryableError returns true exactly for a non-nil error
\* whose lower-cased text contains one of: connection refused, connection
\* closed, timeout, network is unreachable, no such host, connection reset by
\* peer, broken pipe; so it is true for "dial tcp: connection refused" and
\* false for "invalid configuration" and for nil.
C9_RetryableIffAmended ==
  pc = "classified" =>
    /\ retryable =
         (errText # NilText /\ ContainsAnyLowered(errText, AmendedSubstrings))
    /\ errText = "dial tcp: connection refused" => retryable = TRUE
    /\ errText = "invalid configuration" => retryable = FALSE
    /\ errText = NilText => retryable = FALSE

\* C9 witness: an upper-case "network is unreachable" error was classified
\* retryable.
C9_Witness ==
  /\ pc = "classified" /\ errText = "dial tcp: NETWORK IS UNREACHABLE"
  /\ retryable = TRUE

\* C10: a finished SyncTopics run whose calls all succeeded with success
\* codes reports created = desired entries absent from the snapshot, updated =
\* entries above the snapshot count, unchanged = entries equal to it,
\* cannot-scale-down = entries below it, failed = 0, and returns nil; for the
\* section 8 scenario that is 1, 1, 1, 0, 0.
C10_SummaryOnSuccess ==
  (Classified /\ pc = "done" /\ AllCallsSucceeded) =>
    /\ createdCount = Len(SelectSeq(topicSpecs, IsAbsent))
    /\ updatedCount = Len(SelectSeq(topicSpecs, IsGreater))
    /\ unchangedCount = Len(SelectSeq(topicSpecs, IsEqual))
    /\ Len(cannotScaleDown) = Len(SelectSeq(topicSpecs, IsLess))
    /\ failedCount = 0
    /\ result = Nil
    /\ (topicSpecs = ScenarioSpecs /\ run = 1) =>
         /\ createdCount = 1 /\ updatedCount = 1 /\ unchangedCount = 1
         /\ Len(cannotScaleDown) = 0 /\ failedCount = 0

\* C10 witness: the section 8 scenario ran to its end with every call
\* succeeding.
C10_Witness ==
  /\ Classified /\ pc = "done" /\ AllCallsSucceeded
  /\ topicSpecs = ScenarioSpecs /\ run = 1
  /\ existingTopics = ScenarioBroker
  /\ createdCount = 1 /\ updatedCount = 1 /\ unchangedCount = 1

\* The per-topic error codes of a create call: every code but success and
\* already-exists.
ErrorCodes(c) == CountOf(c.codes, ResultCodes \ {ErrNoError, ErrTopicAlreadyExists})

\* C15: a CreateTopics call that returned per-topic results is the last create
\* call of its createTopicsFromSpecs invocation, whatever the results and
\* whatever attempts remain: the function has returned, no backoff follows the
\* call, and when at least one result is an error code other than
\* already-exists the returned error carries the number of such results and
\* the size of the batch.
C15_PerTopicErrorsNotRetried ==
  \A k \in 1..Len(CreateCalls) :
    CreateCalls[k].err = NilText =>
      /\ k = Len(CreateCalls)
      /\ CreateReturned
      /\ pc \notin {"create", "backoff"}
      /\ Len(sleeps) = k - 1
      /\ attempt = k
      /\ ErrorCodes(CreateCalls[k]) > 0 =>
           createErr = Errorf("some topics failed to create",
                              ErrorCodes(CreateCalls[k]),
                              Len(CreateCalls[k].topics), "")

\* The first attempt returned results for two topics, one created and one
\* in error; the invocation is over after that single call.
C15_Witness ==
  /\ pc = "done"
  /\ Len(CreateCalls) = 1
  /\ attempt = 1 /\ attempt < maxRetries
  /\ CreateCalls[1].err = NilText
  /\ Len(CreateCalls[1].codes) = 2
  /\ ErrorCodes(CreateCalls[1]) = 1
  /\ createErr.n = 1

\* C16: a CreateTopics call that failed with an error isRetryableError
\* rejects ends the invocation at once: it is the last create call, no sleep
\* follows it and the returned error wraps its text. Sleeps happen only after
\* a retryable failure with an attempt left: the k-th sleep lasts k seconds,
\* follows the failed k-th call, and is followed by call k + 1 as soon as the
\* loop comes back; there are never more sleeps than maxRetries - 1.
C16_BackoffOnlyBetweenAttempts ==
  /\ \A k \in 1..Len(CreateCalls) :
       (CreateCalls[k].err # NilText /\ ~isRetryableError(CreateCalls[k].err)) =>
         /\ k = Len(CreateCalls)
         /\ Len(sleeps) = k - 1
         /\ CreateReturned
         /\ createErr = Errorf("failed to create topics on attempt", k, 0,
                               CreateCalls[k].err)
  /\ \A k \in 1..Len(sleeps) :
       /\ sleeps[k] = k * 1
       /\ k < maxRetries
       /\ k <= Len(CreateCalls)
       /\ CreateCalls[k].err # NilText /\ isRetryableError(CreateCalls[k].err)
  /\ Len(sleeps) \in {Len(CreateCalls) - 1, Len(CreateCalls)}
  /\ Len(sleeps) = Len(CreateCalls) => (pc = "create" \/ Len(CreateCalls) = 0)
  /\ CreateReturned => Len(sleeps) = Len(CreateCalls) - 1

\* The first call failed with a non-retryable connection error and the
\* invocation returned without sleeping.
C16_Witness ==
  /\ pc = "done"
  /\ Len(CreateCalls) = 1
  /\ CreateCalls[1].err = "invalid configuration"
  /\ sleeps = << >>
  /\ createErr.wraps = "invalid configuration"

\* A run that slept once between a retryable failure and the last attempt,
\* which failed too.
C16_WitnessBackoff ==
  /\ pc = "done"
  /\ Len(CreateCalls) = 2
  /\ sleeps = << 1 >>
  /\ CreateCalls[2].err # NilText

\* The partition calls the update loop has issued so far: none before the
\* loop, one per finished iteration while it runs, one per queued update after.
UpdatesDone ==
  IF pc \in {"create", "backoff"} THEN 0
  ELSE IF pc = "update" THEN updIdx - 1
  ELSE Len(topicsToUpdate)

SucceededPartitionsCalls ==
  Cardinality({k \in 1..Len(PartitionsCalls) : ~CallFailed(PartitionsCalls[k])})

\* C17: in a SyncTopics run the CreatePartitions calls are, in order, one per
\* entry of topicsToUpdate, each for that entry's topic with the desired
\* partition count as IncreaseTo and never repeated, whether or not
\* createTopicsFromSpecs failed and whether or not earlier partition calls
\* failed; updatedCount is the number of those calls that succeeded and
\* failedCount grew by one per call that failed.
C17_OneCallPerUpdate ==
  Classified =>
    /\ Len(PartitionsCalls) = UpdatesDone
    /\ \A k \in 1..Len(PartitionsCalls) :
         /\ PartitionsCalls[k].topics = << topicsToUpdate[k].topic >>
         /\ PartitionsCalls[k].increaseTo = topicsToUpdate[k].desired.NumPartitions
         /\ PartitionsCalls[k].increaseTo > SnapshotCount(topicsToUpdate[k].topic)
    /\ updatedCount = SucceededPartitionsCalls
    /\ failedCount =
         (IF CreateReturned /\ createErr # Nil THEN Len(topicsToCreate) ELSE 0)
         + FailedPartitionsCalls

\* The create phase failed and the update loop still issued its call, which
\* failed with a per-topic result code.
C17_Witness ==
  /\ Classified /\ pc = "done"
  /\ CreateReturned /\ createErr # Nil
  /\ Len(topicsToUpdate) = 1 /\ Len(PartitionsCalls) = 1
  /\ PartitionsCalls[1].err = NilText
  /\ PartitionsCalls[1].codes = << ErrInvalidPartitions >>
  /\ updatedCount = 0 /\ failedCount = Len(topicsToCreate) + 1

\* Two queued updates: the first call failed, the second was still issued and
\* succeeded.
C17_WitnessAfterFailedUpdate ==
  /\ Classified /\ pc = "done"
  /\ Len(PartitionsCalls) = 2
  /\ CallFailed(PartitionsCalls[1]) /\ ~CallFailed(PartitionsCalls[2])
  /\ updatedCount = 1 /\ failedCount = 1

\* The last CreateTopics call of the run returned results, some of them
\* success and at least one an error code other than already-exists.
PartialCreateSuccess ==
  /\ Len(CreateCalls) > 0
  /\ LET c == CreateCalls[Len(CreateCalls)]
     IN /\ c.err = NilText
        /\ CountOf(c.codes, {ErrNoError}) > 0
        /\ ErrorCodes(c) > 0

\* C18: after a create phase with partial success the summary counters of
\* SyncTopics are itemized per topic: createdCount is the number of success
\* results, failedCount holds the error results only (plus the failed
\* partition calls), and SyncTopics returns an error.
C18_ItemizedCreateSummary ==
  (Classified /\ pc = "done" /\ PartialCreateSuccess) =>
    LET c == CreateCalls[Len(CreateCalls)]
    IN /\ createdCount = CountOf(c.codes, {ErrNoError})
       /\ failedCount = ErrorCodes(c) + FailedPartitionsCalls
       /\ result # Nil

\* What the code does instead: the whole create list is counted as failed
\* and nothing as created, although the broker holds the created topics.
C18_CreatePhaseAllOrNothing ==
  (Classified /\ pc = "done" /\ PartialCreateSuccess) =>
    /\ createdCount = 0
    /\ failedCount = Len(topicsToCreate) + FailedPartitionsCalls
    /\ result = Errorf("some operations failed", failedCount, 0, "")
    /\ \E k \in 1..Len(topicsToCreate) : topicsToCreate[k].Topic \in DOMAIN broker

C18_Witness ==
  /\ Classified /\ pc = "done" /\ PartialCreateSuccess
  /\ Len(topicsToCreate) = 2 /\ failedCount = 2 /\ createdCount = 0

\* The desired entries whose partition count is below the snapshot's.
ScaleDownEntries == SelectSeq(topicSpecs, IsLess)

\* Every desired entry is either satisfied by the snapshot or a scale-down.
OnlyScaleDowns ==
  /\ Len(ScaleDownEntries) > 0
  /\ \A i \in 1..Len(topicSpecs) : IsLess(topicSpecs[i]) \/ IsEqual(topicSpecs[i])

\* C19: in every SyncTopics run that got past the metadata fetch, once the
\* classification loop is over and whatever the create and update phases
\* did, the reported cannot-scale-down list has one entry per desired entry
\* below the snapshot count; these entries never add to the failure count;
\* and a run whose only discrepancies are scale-downs, when it has ended, has
\* returned nil.
C19_ScaleDownsReportedInEveryRun ==
  PastClassification =>
    /\ Len(cannotScaleDown) = Len(ScaleDownEntries)
    /\ failedCount <= Len(topicSpecs) - Len(ScaleDownEntries)
    /\ (OnlyScaleDowns /\ pc \in {"done", "panic"}) => result = Nil

\* What the code does: in a SyncTopics run whose classification completed, at
\* every later point of the run and whatever the create and update phases
\* did, the cannot-scale-down list has one entry per desired entry below the
\* snapshot count, in order; no entry of it is created or sent to
\* CreatePartitions, the failure count holds only create-phase and
\* partition-call failures, and a run whose only discrepancies are
\* scale-downs makes no call after the fetch and returns nil.
C19_ScaleDownInformational ==
  Classified =>
    /\ Len(cannotScaleDown) = Len(ScaleDownEntries)
    /\ \A k \in 1..Len(cannotScaleDown) :
         /\ cannotScaleDown[k].topic = ScaleDownEntries[k].Topic
         /\ cannotScaleDown[k].desiredPartitions = ScaleDownEntries[k].NumPartitions
         /\ cannotScaleDown[k].currentPartitions =
              SnapshotCount(ScaleDownEntries[k].Topic)
    /\ Len(topicsToCreate) + Len(topicsToUpdate) + Len(cannotScaleDown)
         + unchangedCount = Len(topicSpecs)
    /\ failedCount =
         (IF CreateReturned /\ createErr # Nil THEN Len(topicsToCreate) ELSE 0)
         + FailedPartitionsCalls
    /\ failedCount <= Len(topicsToCreate) + Len(topicsToUpdate)
    /\ OnlyScaleDowns =>
         /\ Len(calls) = 1 /\ failedCount = 0
         /\ pc = "done" => result = Nil

\* A run with a scale-down entry whose other operation failed: the entry is
\* reported and the failure count is that of the other operation alone.
C19_Witness ==
  /\ Classified /\ pc = "done"
  /\ Len(cannotScaleDown) = 1 /\ failedCount = 1 /\ result # Nil
  /\ Len(topicSpecs) = 2

\* A run whose only discrepancy is a scale-down returned nil.
C19_WitnessOnlyScaleDowns ==
  /\ Classified /\ pc = "done" /\ OnlyScaleDowns /\ result = Nil
  /\ Len(cannotScaleDown) = 1

RECURSIVE ReplayCalls(_, _)
\* The broker that results from b by the successful effects of calls[i..]:
\* topics created by success codes and partitions grown by successful
\* CreatePartitions calls.
ReplayCalls(b, i) ==
  IF i > Len(calls) THEN b
  ELSE LET c == calls[i]
       IN ReplayCalls(
            IF IsCreateCall(c) /\ c.err = NilText
            THEN ApplyCreate(b, c.topics, c.codes, 1)
            ELSE IF IsPartitionsCall(c) /\ ~CallFailed(c)
            THEN Grown(b, c.topics[1], c.increaseTo)
            ELSE b,
            i + 1)

\* C20: in a SyncTopics run the first admin call is GetMetadata and no later
\* call is; no CreateTopics call comes after a CreatePartitions call; the
\* snapshot held by the run stays the broker as it was before the run's
\* creates and increases (the broker is the snapshot with the run's
\* successful calls applied), and the work lists stay the classification of
\* the desired list by that snapshot, so an entry created or grown during
\* the run keeps its class.
C20_CallOrderAndSingleSnapshot ==
  (entry = "SyncTopics" /\ Len(calls) > 0) =>
    /\ \A k \in 1..Len(calls) : (calls[k].op = "GetMetadata") = (k = 1)
    /\ \A i \in 1..Len(calls) : \A j \in 1..Len(calls) :
         (i < j /\ IsPartitionsCall(calls[i])) => ~IsCreateCall(calls[j])
    /\ Fetched => broker = ReplayCalls(existingTopics, 2)
    /\ Classified =>
         /\ topicsToCreate = SelectSeq(topicSpecs, IsAbsent)
         /\ Len(topicsToUpdate) = Len(SelectSeq(topicSpecs, IsGreater))
         /\ Len(cannotScaleDown) = Len(SelectSeq(topicSpecs, IsLess))
         /\ unchangedCount = Len(SelectSeq(topicSpecs, IsEqual))
         /\ \A k \in 1..Len(CreateCalls) : CreateCalls[k].topics = topicsToCreate
         /\ Len(CreateCalls) > 0 => Len(topicsToCreate) > 0
         /\ (pc \in {"update", "report", "done"} /\ Len(topicsToCreate) > 0) =>
              Len(CreateCalls) > 0

\* A finished run that created one topic and then grew another: the created
\* topic is on the broker and still absent from the snapshot and listed in
\* topicsToCreate, and the single metadata call is the first of three calls.
C20_Witness ==
  /\ entry = "SyncTopics" /\ pc = "done" /\ Classified
  /\ Len(calls) = 3
  /\ IsCreateCall(calls[2]) /\ IsPartitionsCall(calls[3])
  /\ ~CallFailed(calls[2]) /\ ~CallFailed(calls[3])
  /\ broker # existingTopics
  /\ \E k \in 1..Len(topicsToCreate) :
       /\ topicsToCreate[k].Topic \in DOMAIN broker
       /\ topicsToCreate[k].Topic \notin DOMAIN existingTopics

\* A desired entry is satisfied by the broker: the topic exists with at least
\* the desired number of partitions.
Satisfied(spec) ==
  /\ spec.Topic \in DOMAIN broker
  /\ Len(broker[spec.Topic].Partitions) >= spec.NumPartitions

\* The desired list names no topic twice.
UniqueNames ==
  \A i \in 1..Len(topicSpecs) : \A j \in 1..Len(topicSpecs) :
    topicSpecs[i].Topic = topicSpecs[j].Topic => i = j

\* C13: when a run of the tool's entry point (CreateTopics as main calls it,
\* or SyncTopics) has returned nil, every desired topic exists on the broker
\* with at least its desired number of partitions.
C13_Convergence ==
  (pc = "done" /\ result = Nil) =>
    \A i \in 1..Len(topicSpecs) : Satisfied(topicSpecs[i])

\* The same for SyncTopics alone, on desired lists without duplicate names.
C13_SyncTopicsConverges ==
  (entry = "SyncTopics" /\ UniqueNames /\ pc = "done" /\ result = Nil) =>
    \A i \in 1..Len(topicSpecs) : Satisfied(topicSpecs[i])

\* CreateTopics returned nil for a topic that exists with fewer partitions
\* than desired: the only result was already-exists.
C13_Witness ==
  /\ entry = "CreateTopics" /\ pc = "done" /\ result = Nil
  /\ Len(topicSpecs) = 1
  /\ CreateCalls[1].codes = << ErrTopicAlreadyExists >>
  /\ ~Satisfied(topicSpecs[1])

\* CreateTopics returned an error that is not the cancelled context's.
OperationFailed ==
  pc = "done" /\ result # Nil /\ result.wraps # CtxErrText

\* C11: when the process has exited, a success exit follows a CreateTopics
\* that returned nil, a CreateTopics that failed for a reason other than the
\* cancelled context made the exit fatal (non-zero) whenever the signal came,
\* and a cancellation exit follows a signal and no such failure.
C11_OutcomeDistinguishes ==
  ~Running =>
    /\ exitStatus = "success" => (pc = "done" /\ result = Nil)
    /\ OperationFailed => exitStatus = "fatal"
    /\ exitStatus = "cancelled" => (signalled /\ ~OperationFailed)
    /\ (pc = "done" /\ result = Nil) =>
         (exitStatus = "success" \/ (signalled /\ exitStatus = "cancelled"))

\* The part of C11 the code keeps: without a signal the exit status follows
\* what CreateTopics returned, a success exit always follows a nil return,
\* and a cancellation exit always follows a signal.
C11_OutcomeWithoutSignal ==
  ~Running =>
    /\ exitStatus = "success" => (pc = "done" /\ result = Nil)
    /\ exitStatus = "cancelled" => signalled
    /\ ~signalled =>
         /\ OperationFailed => exitStatus = "fatal"
         /\ (pc = "done" /\ result = Nil) => exitStatus = "success"

\* main.go reported a cancellation by the user although CreateTopics had
\* failed on a per-topic error before cancel() was called.
C11_Witness ==
  /\ mainVariant = "ctx" /\ exitStatus = "cancelled"
  /\ OperationFailed /\ result.msg = "some topics failed to create"
  /\ cancelledAt.pc = "done"

\* The older main took the signal case of its select although the error of
\* the goroutine was ready.
C11_WitnessSelect ==
  /\ mainVariant = "select" /\ exitStatus = "cancelled" /\ OperationFailed

\* A record the specification's contract rejects.
InvalidRecord(topic) ==
  topic.Name = "" \/ topic.Partitions <= 0 \/ topic.ReplicationFactor <= 0

HasInvalidRecord ==
  \E i \in 1..Len(records) : InvalidRecord(records[i])

\* C12: a process whose YAML file holds an invalid record never creates the
\* admin client and never makes an admin call, and ends with a fatal error.
C12_InvalidRejectedBeforeBroker ==
  HasInvalidRecord =>
    /\ ~connected
    /\ calls = << >>
    /\ ~Running => exitStatus = "fatal"

\* What holds of main.go linked with the validating loader.
C12_ValidatingLoaderFirst ==
  (HasInvalidRecord /\ mainVariant = "ctx" /\ loader = "validating") =>
    /\ ~connected
    /\ calls = << >>
    /\ ~Running => exitStatus = "fatal"

\* What holds of the validating loader under either main: no admin call.
C12_ValidatingLoaderNoCall ==
  (HasInvalidRecord /\ loader = "validating") =>
    /\ calls = << >>
    /\ ~Running => exitStatus = "fatal"

\* The loader without validation handed a record with zero partitions to
\* CreateTopics, and the call was made.
C12_Witness ==
  /\ loader = "plain" /\ mainVariant = "ctx"
  /\ Len(records) = 1 /\ records[1].Name = "A" /\ records[1].Partitions = 0
  /\ Len(CreateCalls) = 1
  /\ CreateCalls[1].topics[1].NumPartitions = 0

\* C14: when cancel() is called while createTopicsFromSpecs sleeps between
\* a failed attempt and the next one, no admin call is made afterwards.
C14_BackoffInterruptible ==
  cancelledAt.pc = "backoff" => Len(calls) = cancelledAt.calls

\* cancel() was called during the sleep after the first attempt; the sleep
\* ran to its end and the second CreateTopics call was made.
C14_Witness ==
  /\ cancelled /\ cancelledAt = [pc |-> "backoff", calls |-> 1]
  /\ sleeps = << 1 >>
  /\ Len(CreateCalls) = 2

\* The metadata fetch of this SyncTopics run returned an error.
FetchFailed ==
  entry = "SyncTopics" /\ Len(calls) > 0 /\ calls[1].op = "GetMetadata"
  /\ calls[1].err # NilText

\* C25: when GetExistingTopics returned an error, SyncTopics has returned
\* "failed to get existing topics" wrapping the error of GetExistingTopics,
\* which wraps the call error, the failed fetch is the only admin call of the
\* run, nothing was classified or counted, and the
\* step that returns the error leaves the broker as it was.
C25_FetchFailureReturnsAtOnce ==
  /\ [](FetchFailed =>
          /\ pc = "done"
          /\ result = Errorf("failed to get existing topics", 0, 0,
                             GetExistingTopicsError(calls[1].err))
          /\ Contains(result.wraps, calls[1].err)
          /\ Len(calls) = 1
          /\ CreateCalls = << >> /\ PartitionsCalls = << >>
          /\ existingTopics = << >>
          /\ topicsToCreate = << >> /\ topicsToUpdate = << >>
          /\ createdCount = 0 /\ updatedCount = 0 /\ failedCount = 0
          /\ ~CreateReturned)
  /\ [][(~FetchFailed /\ FetchFailed') => broker' = broker]_vars

\* A second run against a broker the first run changed: its fetch failed and
\* it returned the wrapped error.
C25_Witness ==
  /\ FetchFailed /\ pc = "done" /\ run = 2 /\ priorChanges > 0
  /\ result.wraps = "failed to get metadata: Local: Broker transport failure"
  /\ broker # << >>

\* The desired entries whose partition count is above the snapshot's.
IncreaseEntries == SelectSeq(topicSpecs, IsGreater)

\* C23: in a SyncTopics run whose classification completed, every
\* CreateTopics call carries exactly the desired entries absent from the
\* snapshot, in order, and there is none when no entry is absent; the k-th
\* CreatePartitions call is for the k-th entry whose desired count exceeds
\* the snapshot count, with that count as target, and there are never more
\* such calls than such entries; no call is made on behalf of an entry whose
\* count equals or is below the snapshot's: no create batch holds its name
\* and no partition call has its count as target.
C23_MinimumOperations ==
  Classified =>
    /\ \A k \in 1..Len(CreateCalls) :
         CreateCalls[k].topics = SelectSeq(topicSpecs, IsAbsent)
    /\ SelectSeq(topicSpecs, IsAbsent) = << >> => CreateCalls = << >>
    /\ Len(PartitionsCalls) <= Len(IncreaseEntries)
    /\ \A k \in 1..Len(PartitionsCalls) :
         /\ PartitionsCalls[k].topics = << IncreaseEntries[k].Topic >>
         /\ PartitionsCalls[k].increaseTo = IncreaseEntries[k].NumPartitions
    /\ Len(calls) = 1 + Len(CreateCalls) + Len(PartitionsCalls)
    /\ \A i \in 1..Len(topicSpecs) :
         (IsEqual(topicSpecs[i]) \/ IsLess(topicSpecs[i])) =>
           /\ \A k \in 1..Len(CreateCalls) :
                \A j \in 1..Len(CreateCalls[k].topics) :
                  CreateCalls[k].topics[j].Topic # topicSpecs[i].Topic
           /\ \A k \in 1..Len(PartitionsCalls) :
                PartitionsCalls[k].topics = << topicSpecs[i].Topic >> =>
                  PartitionsCalls[k].increaseTo > topicSpecs[i].NumPartitions

\* The scenario of section 8 finished: one create call for C alone, one
\* partition call for A alone, none for the unchanged B.
C23_Witness ==
  /\ Classified /\ pc = "done" /\ topicSpecs = ScenarioSpecs
  /\ Len(calls) = 3
  /\ CreateCalls[1].topics = << TopicSpecification("C", 6, 1) >>
  /\ PartitionsCalls[1].topics = << "A" >> /\ PartitionsCalls[1].increaseTo = 3
  /\ unchangedCount = 1

\* A finished run with nothing to create and one unchanged topic made the
\* metadata call only.
C23_WitnessNoCreate ==
  /\ Classified /\ pc = "done" /\ topicsToCreate = << >>
  /\ unchangedCount = 1 /\ Len(topicSpecs) = 1 /\ Len(calls) = 1

\* C24: in every SyncTopics run that got past the metadata fetch, when the
\* run has ended createdCount + updatedCount + unchangedCount +
\* len(cannotScaleDown) + failedCount is the length of the desired list,
\* whatever the admin client returned.
C24_CountsAddUpInEveryRun ==
  (PastClassification /\ pc \in {"report", "done", "panic"}) =>
    createdCount + updatedCount + unchangedCount + Len(cannotScaleDown)
      + failedCount = Len(topicSpecs)

\* What the code does: in a SyncTopics run whose classification completed,
\* once both execution phases are over, createdCount + updatedCount +
\* unchangedCount + len(cannotScaleDown) + failedCount is the length of the
\* desired list, whatever the admin client returned; before that, the three
\* execution counters add up to the create list (once createTopicsFromSpecs
\* returned) plus the updates done, and each list entry is in one bucket
\* only: the create list is all created or all failed, each update is updated
\* or failed.
C24_CountConservation ==
  Classified =>
    /\ Len(topicsToCreate) + Len(topicsToUpdate) + unchangedCount
         + Len(cannotScaleDown) = Len(topicSpecs)
    /\ createdCount + updatedCount + failedCount =
         (IF CreateReturned THEN Len(topicsToCreate) ELSE 0) + UpdatesDone
    /\ createdCount \in {0, Len(topicsToCreate)}
    /\ updatedCount + FailedPartitionsCalls = UpdatesDone
    /\ pc \in {"report", "done"} =>
         createdCount + updatedCount + unchangedCount + Len(cannotScaleDown)
           + failedCount = Len(topicSpecs)

\* The scenario of section 8 with both phases failing: C counted as failed,
\* A counted as failed, B unchanged, and the five counters add up to three.
C24_Witness ==
  /\ Classified /\ pc = "done" /\ topicSpecs = ScenarioSpecs
  /\ createdCount = 0 /\ updatedCount = 0 /\ unchangedCount = 1
  /\ cannotScaleDown = << >> /\ failedCount = 2

\* A desired entry whose topic is in the snapshot with at least one partition
\* and no replica listed for partition 0.
ReadsEmptyReplicaList(spec) ==
  /\ spec.Topic \in DOMAIN existingTopics
  /\ Len(existingTopics[spec.Topic].Partitions) > 0
  /\ Len(existingTopics[spec.Topic].Partitions[1].Replicas) = 0

\* C22: a SyncTopics run that got its snapshot never faults in the
\* classification loop: it stands before the loop or has completed it, and
\* up to the end of the loop the metadata fetch is its only admin call.
C22_ClassificationNeverFaults ==
  Fetched =>
    /\ pc # "panic"
    /\ pc = "classify" \/ Classified
    /\ pc = "classify" => Len(calls) = 1

\* The position of the first desired entry that reads an empty replica list.
FirstFault ==
  CHOOSE i \in 1..Len(topicSpecs) :
    /\ ReadsEmptyReplicaList(topicSpecs[i])
    /\ \A j \in 1..(i - 1) : ~ReadsEmptyReplicaList(topicSpecs[j])

\* What the code does: the loop faults exactly when some desired entry names
\* a snapshot topic whose partition 0 has an empty replica list; a topic with
\* zero partitions is classified without a fault, and no admin call is made
\* during the loop.  When it faults, the replication diagnostics of the
\* entries before the faulting one have been printed, and no other.
C22_FaultsOnEmptyReplicaList ==
  (Fetched /\ pc # "classify") =>
    /\ (pc = "panic") =
         (\E i \in 1..Len(topicSpecs) : ReadsEmptyReplicaList(topicSpecs[i]))
    /\ pc = "panic" =>
         /\ Len(calls) = 1 /\ result = NoResult
         /\ topicsToCreate = << >> /\ topicsToUpdate = << >>
         /\ warned = AnalyzeTopics(SubSeq(topicSpecs, 1, FirstFault - 1),
                                   existingTopics).warned

\* The run faulted on a single desired topic whose snapshot entry has one
\* partition without replicas.
C22_Witness ==
  /\ pc = "panic" /\ Len(topicSpecs) = 1
  /\ Len(existingTopics[topicSpecs[1].Topic].Partitions) = 1
  /\ existingTopics[topicSpecs[1].Topic].Partitions[1].Replicas = << >>

\* The run faulted on its second entry after printing the replication
\* diagnostic of the first.
C22_WitnessDiagnosticBeforeFault ==
  /\ pc = "panic" /\ Len(topicSpecs) = 2
  /\ warned = << topicSpecs[1].Topic >>
  /\ ReadsEmptyReplicaList(topicSpecs[2])

\* A topic with zero partitions in the snapshot was classified without a
\* fault, as an update.
C22_WitnessZeroPartitions ==
  /\ Classified /\ Len(topicSpecs) = 1 /\ Len(topicsToUpdate) = 1
  /\ SnapshotCount(topicSpecs[1].Topic) = 0

\* One step of the run in progress: every action but the start of a new run.
RunStep ==
  \/ FetchMetadata
  \/ FetchMetadataFails
  \/ Classify
  \/ CallCreateTopics
  \/ CreateAttemptResults
  \/ CreateAttemptFails
  \/ Backoff
  \/ UpdateTopic
  \/ Report

\* Desired lists and brokers of the runs checked for termination: a topic
\* to create, to grow, to leave alone, or one whose replica list is empty.
LiveSpecs ==
  { TopicSpecification("A", 1, 1), TopicSpecification("A", 2, 1),
    TopicSpecification("B", 2, 1) }
LiveBrokers ==
  { << >>,
    [t \in {"A"} |-> TopicMetadata(1, <<1>>)],
    [t \in {"A"} |-> TopicMetadata(1, << >>)],
    [t \in {"A", "B"} |-> TopicMetadata(2, <<1>>)] }

InitLive ==
  /\ \/ /\ topicSpecs \in SeqsUpTo(LiveSpecs, MaxDesired)
        /\ broker \in LiveBrokers
     \/ /\ topicSpecs = ScenarioSpecs
        /\ broker = ScenarioBroker
  /\ entry \in {"SyncTopics", "CreateTopics"}
  /\ run = 1 /\ priorOK = TRUE /\ priorChanges = 0
  /\ errText = NilText /\ retryable = FALSE
  /\ NoProcess
  /\ FreshRun

\* The runs in which every admin call and every sleep returns: the
\* sequential code of the run always takes its next step.
SpecLive == InitLive /\ [][Next]_vars /\ WF_vars(RunStep)

\* The run is over: SyncTopics or CreateTopics returned, or the run faulted.
Terminated == pc \in {"done", "panic"}

\* C26: every run that starts comes to its end, whatever the admin calls
\* return; at every point of a SyncTopics run there is at most one
\* GetMetadata call, at most maxRetries CreateTopics calls and at most one
\* CreatePartitions call per entry of topicsToUpdate, and a run that
\* returned after classification made exactly one per entry.
C26_Termination ==
  /\ [](entry = "SyncTopics" =>
          /\ Cardinality({k \in 1..Len(calls) : calls[k].op = "GetMetadata"}) <= 1
          /\ Len(CreateCalls) <= maxRetries
          /\ Len(CreateCalls) <= 2
          /\ Len(sleeps) <= maxRetries - 1
          /\ Len(PartitionsCalls) <= Len(topicsToUpdate)
          /\ (pc = "done" /\ Classified) =>
               Len(PartitionsCalls) = Len(topicsToUpdate))
  /\ (pc = "start" ~> Terminated)

\* A finished SyncTopics run that used everything it may: one fetch, two
\* failed create attempts and one partition call for its one update.
C26_Witness ==
  /\ entry = "SyncTopics" /\ pc = "done" /\ Classified
  /\ Len(CreateCalls) = 2 /\ sleeps = << 1 >>
  /\ Len(topicsToUpdate) = 1 /\ Len(PartitionsCalls) = 1
  /\ Len(calls) = 4

\* The owner of the ctx handed to SyncTopics or CreateTopics calls cancel()
\* while the run is in progress (main.go 33-41).
CancelContext ==
  /\ pc \notin {"done", "panic"}
  /\ ~cancelled
  /\ cancelled' = TRUE
  /\ cancelledAt' = [pc |-> pc, calls |-> Len(calls)]
  /\ UNCHANGED << topicSpecs, entry, errText, retryable, priorChanges,
                  mainVariant, loader, records, mainPc, signalled, connected,
                  exitStatus, runVars >>

NextCancel ==
  \/ CancelContext
  \/ RunStep

\* One run of an entry point whose ctx may be cancelled at any moment.
SpecCancel == Init /\ [][NextCancel]_vars

\* C21: once cancel() was called, the run makes no further CreateTopics call
\* and no further CreatePartitions call.
C21_NoNewCallAfterCancel ==
  cancelled =>
    \A k \in (cancelledAt.calls + 1)..Len(calls) :
      ~IsCreateCall(calls[k]) /\ ~IsPartitionsCall(calls[k])

\* What the code does: cancellation changes nothing in the run's control
\* flow. The create attempts still follow the retry test alone and every
\* queued update still gets its call, so a finished run made the same calls
\* as a run that was never cancelled.
C21_CancellationNotObserved ==
  (cancelled /\ Classified /\ pc = "done") =>
    /\ Len(PartitionsCalls) = Len(topicsToUpdate)
    /\ Len(topicsToCreate) > 0 => Len(CreateCalls) >= 1

\* cancel() was called between two updates; the second CreatePartitions
\* call was made all the same.
C21_Witness ==
  /\ cancelled /\ cancelledAt.pc = "update"
  /\ Len(PartitionsCalls) = 2
  /\ IsPartitionsCall(calls[cancelledAt.calls])
  /\ IsPartitionsCall(calls[cancelledAt.calls + 1])

\* cancel() was called before the first create attempt, which was made.
C21_WitnessCreate ==
  /\ cancelled /\ cancelledAt = [pc |-> "create", calls |-> 1]
  /\ entry = "SyncTopics" /\ Len(CreateCalls) = 1

====
